---- MODULE Spec2Model ----
(***************************************************************************)
(* Device pairing and relay engine of the Televiu server                    *)
(* (src/src/server/handlers.rs, src/src/server/state.rs).                   *)
(*                                                                          *)
(* One task per player connection (handle_player) and one per controller    *)
(* connection (handle_controller) share the registry State.channels, a     *)
(* tokio RwLock around a map from device id to an entry whose sender slot   *)
(* is guarded by its own RwLock.  Every action below is the code between    *)
(* two await points of one of the two handlers.                             *)
(***************************************************************************)
EXTENDS Integers, Sequences, FiniteSets, TLC

\* ------------------------------------------------------------------ bounds
\* Frames the controller connections deliver to the server, all together.
MaxFrames == 4
\* Capacity of the relay channel in the model (mpsc::channel(100) in the code).
ChanCap == 2
\* The frame budget of the runs in which two players connect.
MaxFramesTwo == 1

\* ------------------------------------------------------------- processes
Players == {"p1", "p2"}
\* The player that connects in the runs with one device.
Solo == {"p1"}
Controllers == {"c1", "c2"}

\* A player session names its device with a fresh uuid: one id per session.
Devices == Players
NotRegistered == "not-registered"
NoParam == "absent"
NoOne == "nobody"
\* What the `secret` query parameter may carry.
SecretParams == {NoParam, "s1", "s2"}
\* The same, in the runs where every controller that has a secret has the same.
OneSecret == {NoParam, "s1"}

\* ---------------------------------------------------------------- events
Command == {"Pair", "Unpair", "Play", "Stop"}
NoPayload == "null"
Garbage == "garbage"

\* A text frame is the wire text: the command and payload it spells and the
\* way it is spelled ("canon" is what serde_json::to_string produces, "spaced"
\* is any other spelling of the same JSON value).
WellFormed ==
    {[command |-> c, payload |-> NoPayload, raw |-> "canon"] : c \in {"Play", "Stop", "Unpair"}}
    \cup {[command |-> c, payload |-> "a", raw |-> "spaced"] : c \in {"Pair", "Unpair"}}
Malformed == [command |-> Garbage, payload |-> NoPayload, raw |-> "spaced"]
Texts == WellFormed \cup {Malformed}

Event(c, p) == [command |-> c, payload |-> p]
ParseError == [command |-> Garbage, payload |-> NoPayload]

\* serde_json::from_str::<Event>: the value the text spells, whatever the spelling.
from_str(text) ==
    IF text.command \in Command THEN Event(text.command, text.payload) ELSE ParseError

\* serde_json::to_string(&Event): the canonical spelling.
to_string(event) ==
    [command |-> event.command, payload |-> event.payload, raw |-> "canon"]

\* The forced Unpair every reject branch builds.
ForcedUnpair == to_string(Event("Unpair", NoPayload))

NoText == [command |-> "none", payload |-> NoPayload, raw |-> "canon"]
\* Message::Close(None), as written to a socket.
CloseMsg == [command |-> "close", payload |-> NoPayload, raw |-> "canon"]
TextFrame(t) == [type |-> "Text", text |-> t]
CloseFrame == [type |-> "Close", text |-> NoText]
OtherFrame == [type |-> "Binary", text |-> NoText]
Frames == {TextFrame(t) : t \in Texts} \cup {CloseFrame, OtherFrame}

\* ------------------------------------------------------- ControllerState
ControllerState == {"Unpaired", "Paired", "Played", "Stopped"}

\* Each method returns <<verdict, next state>>.
pair(s) ==
    IF s = "Unpaired" THEN <<TRUE, "Paired">> ELSE <<FALSE, "Unpaired">>

\* A play that cannot resume a stopped session.
play_paired_only(s) ==
    IF s = "Paired" THEN <<TRUE, "Played">> ELSE <<FALSE, "Unpaired">>

play(s) ==
    IF s \in {"Paired", "Stopped"} THEN <<TRUE, "Played">> ELSE <<FALSE, "Unpaired">>

\* A stop that leaves the state as it was when it is refused.
stop_keeps(s) ==
    IF s = "Played" THEN <<TRUE, "Stopped">> ELSE <<FALSE, s>>

stop(s) ==
    IF s = "Played" THEN <<TRUE, "Stopped">> ELSE <<FALSE, "Unpaired">>

unpair(s) ==
    IF s \in {"Paired", "Played", "Stopped"} THEN <<TRUE, "Unpaired">> ELSE <<FALSE, "Unpaired">>

\* The method the command arm of handle_controller calls.
transition(s, c) ==
    CASE c = "Pair" -> pair(s)
      [] c = "Play" -> play(s)
      [] c = "Stop" -> stop(s)
      [] c = "Unpair" -> unpair(s)

\* ----------------------------------------------------------------- state
VARIABLES
    channels,          \* registry: device -> "absent" | "some" | "none" (the sender slot)
    entryLock,         \* device -> controller holding the entry's write lock, or NoOne
    mapReaders,        \* controllers holding a read guard of State.channels
    lockQ,             \* tasks waiting for State.channels, in arrival order
    rx,                \* device -> "unborn" | "open" | "closed": the receiver half
    senderOwner,       \* device -> "unborn" | "slot" | controller | "dropped"
    queue,             \* device -> texts buffered in the mpsc channel
    ppc,               \* player -> position in handle_player
    psocket,           \* player -> messages written to the player's socket
    playerExit,        \* player -> how the session left its select loop
    cpc,               \* controller -> position in handle_controller
    params,            \* controller -> query parameters of the connection
    controller_state,  \* controller -> ControllerState
    frames,            \* controller -> frames taken from the socket so far
    pending,           \* controller -> sends the current frame still has to do
    after,             \* controller -> where the current frame's arm ends
    calls,             \* controller -> sender.send calls made, with their results
    csocket,           \* controller -> messages the session sent on the controller's socket
    exitReason         \* controller -> how the session left its read loop

vars == <<channels, entryLock, mapReaders, lockQ, rx, senderOwner, queue, ppc, psocket,
          playerExit, cpc, params, controller_state, frames, pending, after, calls, csocket,
          exitReason>>

registryVars == <<channels, entryLock, mapReaders, lockQ>>
channelVars == <<rx, senderOwner, queue>>
playerVars == <<ppc, psocket, playerExit>>
controllerVars == <<cpc, params, controller_state, frames, pending, after, calls, csocket,
                    exitReason>>

NoParams == [device |-> NoParam, secret |-> NoParam]

Init ==
    /\ channels = [d \in Devices |-> "absent"]
    /\ entryLock = [d \in Devices |-> NoOne]
    /\ mapReaders = {}
    /\ lockQ = <<>>
    /\ rx = [d \in Devices |-> "unborn"]
    /\ senderOwner = [d \in Devices |-> "unborn"]
    /\ queue = [d \in Devices |-> <<>>]
    /\ ppc = [p \in Players |-> "start"]
    /\ psocket = [p \in Players |-> <<>>]
    /\ playerExit = [p \in Players |-> "none"]
    /\ cpc = [c \in Controllers |-> "start"]
    /\ params = [c \in Controllers |-> NoParams]
    /\ controller_state = [c \in Controllers |-> "Unpaired"]
    /\ frames = [c \in Controllers |-> <<>>]
    /\ pending = [c \in Controllers |-> <<>>]
    /\ after = [c \in Controllers |-> "loop"]
    /\ calls = [c \in Controllers |-> <<>>]
    /\ csocket = [c \in Controllers |-> <<>>]
    /\ exitReason = [c \in Controllers |-> "none"]

\* ------------------------------------------------- tokio RwLock on the map
\* The lock hands out its permits in arrival order: a task gets the lock when
\* it is first in line and the lock is compatible.  Write guards are taken and
\* dropped inside one action (no await while one is held), so only read
\* guards are ever visible between actions.
FirstInLine(t) == lockQ /= <<>> /\ Head(lockQ) = t

CanRead(t) == FirstInLine(t)

CanWrite(t) == FirstInLine(t) /\ mapReaders = {}

\* Sender::is_closed: the receiver half was closed or dropped.
is_closed(d) == rx[d] = "closed"


\* HashMap::insert / HashMap::remove on the registry, and Option::take on the slot.
\* A registration that leaves the registry as it was.
insert_nothing(m, d) == m

insert(m, d) == [m EXCEPT ![d] = "some"]

remove(m, d) == [m EXCEPT ![d] = "absent"]

\* A claim that copies the handle and leaves it in the slot.
take_clone(slot) == IF slot = "some" THEN <<TRUE, "some">> ELSE <<FALSE, slot>>

\* A claim that, finding the slot empty, puts a handle back into it.
take_refill(slot) == IF slot = "some" THEN <<TRUE, "none">> ELSE <<FALSE, "some">>

\* Option::take: <<whether a handle was there, the slot afterwards>>.
take(slot) == IF slot = "some" THEN <<TRUE, "none">> ELSE <<FALSE, slot>>

\* A buffer that hands out the newest text first.
enqueue_front(q, msg) == <<msg>> \o q

\* mpsc buffer: send appends, recv takes the oldest.
enqueue(q, msg) == Append(q, msg)

\* ------------------------------------------------------- handle_player
\* A handshake that names another device than the one inserted.
Registration_of_other(d) ==
    [command |-> "registration", payload |-> CHOOSE q \in Players : q /= d, raw |-> "canon"]

\* handlers.rs 75-80: the registration event carries the device inserted.
Registration(d) == [command |-> "registration", payload |-> d, raw |-> "canon"]

\* handlers.rs 61-71: name the device, create the channel, ask for the write lock.
player_create(p) ==
    /\ ppc[p] = "start"
    /\ rx' = [rx EXCEPT ![p] = "open"]
    /\ senderOwner' = [senderOwner EXCEPT ![p] = "player"]
    /\ lockQ' = Append(lockQ, p)
    /\ ppc' = [ppc EXCEPT ![p] = "register"]
    /\ UNCHANGED <<channels, entryLock, mapReaders, queue, psocket, playerExit, controllerVars>>

\* handlers.rs 71-73: insert under the write lock, drop the guard.
player_register(p) ==
    /\ ppc[p] = "register"
    /\ CanWrite(p)
    /\ lockQ' = Tail(lockQ)
    /\ channels' = insert(channels, p)
    /\ senderOwner' = [senderOwner EXCEPT ![p] = "slot"]
    /\ ppc' = [ppc EXCEPT ![p] = "handshake"]
    /\ UNCHANGED <<entryLock, mapReaders, rx, queue, psocket, playerExit, controllerVars>>

\* handlers.rs 75-85: send the registration message; when the socket fails
\* the function returns there and then, dropping the receiver.
player_handshake(p) ==
    /\ ppc[p] = "handshake"
    /\ \E ok \in BOOLEAN :
        IF ok
        THEN /\ psocket' = [psocket EXCEPT ![p] = Append(@, Registration(p))]
             /\ ppc' = [ppc EXCEPT ![p] = "loop"]
             /\ UNCHANGED <<rx, queue>>
        ELSE /\ ppc' = [ppc EXCEPT ![p] = "done"]
             /\ rx' = [rx EXCEPT ![p] = "closed"]
             /\ queue' = [queue EXCEPT ![p] = <<>>]
             /\ UNCHANGED psocket
    /\ UNCHANGED <<registryVars, senderOwner, playerExit, controllerVars>>

\* handlers.rs 175-193: what every way out of the loop runs: the close frame
\* (its result is ignored), rx.close(), and the request for the write lock.
player_close(p, why) ==
    /\ rx' = [rx EXCEPT ![p] = "closed"]
    /\ lockQ' = Append(lockQ, p)
    /\ ppc' = [ppc EXCEPT ![p] = "unregister"]
    /\ playerExit' = [playerExit EXCEPT ![p] = why]

\* handlers.rs 89-109: the socket arm of the select; a frame from the player
\* is ignored, an error or the end of the stream leaves the loop.
player_socket_recv(p) ==
    /\ ppc[p] = "loop"
    /\ \E outcome \in {"frame", "end"} :
        IF outcome = "end" THEN player_close(p, "socket")
        ELSE UNCHANGED <<rx, lockQ, ppc, playerExit>>
    /\ UNCHANGED <<channels, entryLock, mapReaders, senderOwner, queue, psocket, controllerVars>>

\* A channel arm that goes on whatever it forwarded.
continues_always(command) == TRUE

\* The arm of `match event.command` (handlers.rs 123-162): whether the loop
\* goes on after the event has been written to the socket.
continues_after(command) == command /= "Unpair"

\* handlers.rs 110-171: the channel arm of the select.
player_rx_recv(p) ==
    /\ ppc[p] = "loop"
    /\ IF queue[p] /= <<>>
       THEN LET msg == Head(queue[p])
                event == from_str(msg)
            IN  /\ queue' = [queue EXCEPT ![p] = Tail(@)]
                /\ IF event = ParseError
                   THEN UNCHANGED <<rx, lockQ, ppc, psocket, playerExit>>
                   ELSE \E ok \in BOOLEAN :
                          IF ok
                          THEN /\ psocket' = [psocket EXCEPT ![p] = Append(@, msg)]
                               /\ IF continues_after(event.command)
                                  THEN UNCHANGED <<rx, lockQ, ppc, playerExit>>
                                  ELSE player_close(p, "unpair")
                          ELSE /\ player_close(p, "forward")
                               /\ UNCHANGED psocket
       ELSE /\ senderOwner[p] = "dropped"
            /\ player_close(p, "drained")
            /\ UNCHANGED <<queue, psocket>>
    /\ UNCHANGED <<channels, entryLock, mapReaders, senderOwner, controllerVars>>

\* handlers.rs 193-199: remove the entry under the write lock; the function
\* ends, the guard and the receiver are dropped.
player_unregister(p) ==
    /\ ppc[p] = "unregister"
    /\ CanWrite(p)
    /\ lockQ' = Tail(lockQ)
    /\ channels' = remove(channels, p)
    /\ senderOwner' = [senderOwner EXCEPT ![p] = IF @ = "slot" THEN "dropped" ELSE @]
    /\ queue' = [queue EXCEPT ![p] = <<>>]
    /\ ppc' = [ppc EXCEPT ![p] = "done"]
    /\ UNCHANGED <<entryLock, mapReaders, rx, psocket, playerExit, controllerVars>>

handle_player(p) ==
    \/ player_create(p)
    \/ player_register(p)
    \/ player_handshake(p)
    \/ player_socket_recv(p)
    \/ player_rx_recv(p)
    \/ player_unregister(p)


\* --------------------------------------------------- handle_controller
EarlyReturns == {"no_device", "no_secret", "not_found", "already_claimed"}
LoopExits == {"stream_end", "consumer_gone", "rejected", "unpair", "close", "panic"}

DeviceParams == Devices \cup {NotRegistered, NoParam}
\* The same, in the runs where one player connects.
SoloParams == Solo \cup {NotRegistered, NoParam}

\* A check that admits one value of the secret only.
secret_matches(sec) == sec = "s1"

\* handlers.rs 291-298: params.get("secret") must be Some; the value is bound
\* to _secret and never read.
secret_given(sec) == sec /= NoParam

\* handlers.rs 282-300: read the query parameters, ask for the read lock.
controller_start(c, devices, secrets) ==
    /\ cpc[c] = "start"
    /\ \E dev \in devices, sec \in secrets :
        /\ params' = [params EXCEPT ![c] = [device |-> dev, secret |-> sec]]
        /\ IF dev = NoParam
           THEN /\ cpc' = [cpc EXCEPT ![c] = "done"]
                /\ exitReason' = [exitReason EXCEPT ![c] = "no_device"]
                /\ UNCHANGED lockQ
           ELSE IF ~secret_given(sec)
           THEN /\ cpc' = [cpc EXCEPT ![c] = "done"]
                /\ exitReason' = [exitReason EXCEPT ![c] = "no_secret"]
                /\ UNCHANGED lockQ
           ELSE /\ cpc' = [cpc EXCEPT ![c] = "lookup"]
                /\ lockQ' = Append(lockQ, c)
                /\ UNCHANGED exitReason
    /\ UNCHANGED <<channels, entryLock, mapReaders, channelVars, playerVars,
                   controller_state, frames, pending, after, calls, csocket>>

\* HashMap::get: is the device a key of the map.
get(m, dev) == dev \in DOMAIN m /\ m[dev] /= "absent"

\* handlers.rs 300-312: take the read guard and look the device up; the guard
\* lives until the function ends.
controller_lookup(c) ==
    /\ cpc[c] = "lookup"
    /\ CanRead(c)
    /\ lockQ' = Tail(lockQ)
    /\ IF get(channels, params[c].device)
       THEN /\ mapReaders' = mapReaders \cup {c}
            /\ cpc' = [cpc EXCEPT ![c] = "entry"]
            /\ UNCHANGED exitReason
       ELSE /\ cpc' = [cpc EXCEPT ![c] = "done"]
            /\ exitReason' = [exitReason EXCEPT ![c] = "not_found"]
            /\ UNCHANGED mapReaders
    /\ UNCHANGED <<channels, entryLock, channelVars, playerVars,
                   params, controller_state, frames, pending, after, calls, csocket>>

\* handlers.rs 312: channel.write().await
controller_lock_entry(c) ==
    /\ cpc[c] = "entry"
    /\ entryLock[params[c].device] = NoOne
    /\ entryLock' = [entryLock EXCEPT ![params[c].device] = c]
    /\ cpc' = [cpc EXCEPT ![c] = "take"]
    /\ UNCHANGED <<channels, mapReaders, lockQ, channelVars, playerVars,
                   params, controller_state, frames, pending, after, calls, csocket, exitReason>>

\* An entry lock whose guard is kept.
unlock_never(locks, d) == locks

\* handlers.rs 326: drop(lock) releases the entry's write lock.
unlock(locks, d) == [locks EXCEPT ![d] = NoOne]

\* handlers.rs 313-328: take the sender out of the slot, drop the entry lock.
controller_take(c) ==
    LET d == params[c].device
        res == take(channels[d])
    IN  /\ cpc[c] = "take"
        /\ entryLock' = unlock(entryLock, d)
        /\ channels' = [channels EXCEPT ![d] = res[2]]
        /\ IF res[1]
           THEN /\ senderOwner' = [senderOwner EXCEPT ![d] = c]
                /\ controller_state' = [controller_state EXCEPT ![c] = "Unpaired"]
                /\ cpc' = [cpc EXCEPT ![c] = "loop"]
                /\ UNCHANGED <<mapReaders, exitReason>>
           ELSE /\ cpc' = [cpc EXCEPT ![c] = "done"]
                /\ exitReason' = [exitReason EXCEPT ![c] = "already_claimed"]
                /\ mapReaders' = mapReaders \ {c}
                /\ UNCHANGED <<senderOwner, controller_state>>
        /\ UNCHANGED <<lockQ, rx, queue, playerVars, params, frames, pending, after, calls,
                       csocket>>


\* One sender.send(..).await of an arm: the text it sends and whether its
\* result is unwrapped (a Closed result then panics the task).
Send(msg, unwrapped) == [msg |-> msg, unwrap |-> unwrapped]

Arm(s, sends, next, reason) == [state |-> s, sends |-> sends, next |-> next, reason |-> reason]

\* Arms that forward the event re-serialized instead of the inbound text.
command_arm_reserialized(s, text, command) ==
    LET r == transition(s, command)
    IN  IF ~r[1]
        THEN Arm(r[2], <<Send(ForcedUnpair, FALSE)>>, "done", "rejected")
        ELSE Arm(r[2], <<Send(to_string(from_str(text)), TRUE)>>, "loop", "none")

\* handlers.rs 355-423: the Pair, Play and Stop arms.  Rejected: send the
\* forced Unpair (error logged) and break.  Accepted: send the inbound text.
command_arm(s, text, command) ==
    LET r == transition(s, command)
    IN  IF ~r[1]
        THEN Arm(r[2], <<Send(ForcedUnpair, FALSE)>>, "done", "rejected")
        ELSE Arm(r[2], <<Send(text, TRUE)>>, "loop", "none")

\* An Unpair arm that forgets to leave the loop.
unpair_arm_no_break(s, text) ==
    LET r == unpair(s)
    IN  IF ~r[1]
        THEN Arm(r[2], <<Send(ForcedUnpair, FALSE), Send(text, TRUE)>>, "loop", "none")
        ELSE Arm(r[2], <<Send(text, TRUE)>>, "loop", "none")

\* handlers.rs 424-446: the Unpair arm.  Rejected: send the forced Unpair;
\* in both cases go on to send the inbound text, then break.
unpair_arm(s, text) ==
    LET r == unpair(s)
    IN  IF ~r[1]
        THEN Arm(r[2], <<Send(ForcedUnpair, FALSE), Send(text, TRUE)>>, "done", "rejected")
        ELSE Arm(r[2], <<Send(text, TRUE)>>, "done", "unpair")

\* handlers.rs 449-478: a close frame.  unpair() is run; the forced Unpair is
\* sent when it returns false; then the close frame is answered and the loop left.
close_arm(s) ==
    LET r == unpair(s)
    IN  IF ~r[1]
        THEN Arm(r[2], <<Send(ForcedUnpair, FALSE)>>, "done", "close")
        ELSE Arm(r[2], <<>>, "done", "close")

\* A text arm that treats a text that does not parse as a rejected command.
text_arm_strict(s, text) ==
    LET event == from_str(text)
    IN  IF event = ParseError THEN Arm("Unpaired", <<Send(ForcedUnpair, FALSE)>>, "done", "rejected")
        ELSE IF event.command = "Unpair" THEN unpair_arm(s, text)
        ELSE command_arm(s, text, event.command)

\* handlers.rs 338-353: a text frame that does not parse is skipped.
text_arm(s, text) ==
    LET event == from_str(text)
    IN  IF event = ParseError THEN Arm(s, <<>>, "loop", "none")
        ELSE IF event.command = "Unpair" THEN unpair_arm(s, text)
        ELSE command_arm(s, text, event.command)

\* handlers.rs 337-480: match msg.
handle_frame(s, f) ==
    CASE f.type = "Text" -> text_arm(s, f.text)
      [] f.type = "Close" -> close_arm(s)
      [] OTHER -> Arm(s, <<>>, "loop", "none")

\* A loop that runs the state machine on the frame before it looks at the receiver.
on_frame_late(closed, s, f) ==
    IF closed THEN Arm(handle_frame(s, f).state, <<>>, "done", "consumer_gone")
    ELSE handle_frame(s, f)

\* handlers.rs 331-337: the receiver is looked at before the frame is.
on_frame(closed, s, f) ==
    IF closed THEN Arm(s, <<>>, "done", "consumer_gone") ELSE handle_frame(s, f)

\* A session that answers a rejected command on the controller's socket.
socket_reply_unpair(reason) ==
    IF reason = "close" THEN <<CloseMsg>>
    ELSE IF reason = "rejected" THEN <<ForcedUnpair>> ELSE <<>>

\* What the session writes to the controller's socket on its way out: the
\* close arm answers the close frame (handlers.rs 468-475); after the loop
\* (handlers.rs 483-492) nothing is written.
socket_reply(reason) == IF reason = "close" THEN <<CloseMsg>> ELSE <<>>

\* A channel without a bound.
has_capacity_always(q) == TRUE

\* mpsc::Sender::send completes only while the buffer has a free slot.
has_capacity(q) == Len(q) < ChanCap

RECURSIVE SumLen(_, _)
SumLen(f, S) ==
    IF S = {} THEN 0
    ELSE LET x == CHOOSE x \in S : TRUE IN Len(f[x]) + SumLen(f, S \ {x})

FramesTaken == SumLen(frames, Controllers)

\* handlers.rs 483-492: once the loop is left nothing is awaited any more:
\* the final state check runs and the function ends, dropping the sender and
\* the read guard.  A panic unwinds through the same drops.
Leaves(c, next) == next \in {"done", "panicked"}

\* handlers.rs 330-337: wait for a frame; leave the loop when the stream ends
\* or errs, or when the receiver is found closed; else run the frame's arm up
\* to its first send.  budget bounds the frames the peers deliver.
controller_recv(c, budget) ==
    LET d == params[c].device
    IN  /\ cpc[c] = "loop"
        /\ \/ /\ cpc' = [cpc EXCEPT ![c] = "done"]
              /\ exitReason' = [exitReason EXCEPT ![c] = "stream_end"]
              /\ UNCHANGED <<controller_state, frames, pending, after>>
           \/ /\ FramesTaken < budget
              /\ \E f \in Frames :
                   LET h == on_frame(is_closed(d), controller_state[c], f)
                   IN  /\ frames' = [frames EXCEPT ![c] = Append(@, f)]
                       /\ controller_state' = [controller_state EXCEPT ![c] = h.state]
                       /\ pending' = [pending EXCEPT ![c] = h.sends]
                       /\ after' = [after EXCEPT ![c] = h.next]
                       /\ exitReason' = [exitReason EXCEPT ![c] =
                             IF h.next = "done" THEN h.reason ELSE @]
                       /\ cpc' = [cpc EXCEPT ![c] =
                             IF h.sends /= <<>> THEN "send" ELSE h.next]
        /\ csocket' = [csocket EXCEPT ![c] =
              @ \o (IF cpc'[c] = "done" THEN socket_reply(exitReason'[c]) ELSE <<>>)]
        /\ senderOwner' = [senderOwner EXCEPT ![d] = IF Leaves(c, cpc'[c]) THEN "dropped" ELSE @]
        /\ mapReaders' = IF Leaves(c, cpc'[c]) THEN mapReaders \ {c} ELSE mapReaders
        /\ UNCHANGED <<channels, entryLock, lockQ, rx, queue, playerVars, params, calls>>

Call(msg, result) == [msg |-> msg, result |-> result]

\* sender.send(..).await: Closed once the receiver is closed, suspended while
\* the buffer is full, else the text is buffered.  A Closed result is logged
\* or, where the code unwraps it, panics the task.
controller_send(c) ==
    LET d == params[c].device
        s == Head(pending[c])
        rest == Tail(pending[c])
    IN  /\ cpc[c] = "send"
        /\ IF is_closed(d)
           THEN /\ calls' = [calls EXCEPT ![c] = Append(@, Call(s.msg, "Closed"))]
                /\ UNCHANGED queue
                /\ IF s.unwrap
                   THEN /\ cpc' = [cpc EXCEPT ![c] = "panicked"]
                        /\ exitReason' = [exitReason EXCEPT ![c] = IF @ = "none" THEN "panic" ELSE @]
                        /\ pending' = [pending EXCEPT ![c] = <<>>]
                   ELSE /\ pending' = [pending EXCEPT ![c] = rest]
                        /\ cpc' = [cpc EXCEPT ![c] = IF rest = <<>> THEN after[c] ELSE "send"]
                        /\ UNCHANGED exitReason
           ELSE /\ has_capacity(queue[d])
                /\ queue' = [queue EXCEPT ![d] = enqueue(@, s.msg)]
                /\ calls' = [calls EXCEPT ![c] = Append(@, Call(s.msg, "Ok"))]
                /\ pending' = [pending EXCEPT ![c] = rest]
                /\ cpc' = [cpc EXCEPT ![c] = IF rest = <<>> THEN after[c] ELSE "send"]
                /\ UNCHANGED exitReason
        /\ csocket' = [csocket EXCEPT ![c] =
              @ \o (IF cpc'[c] = "done" THEN socket_reply(exitReason'[c]) ELSE <<>>)]
        /\ senderOwner' = [senderOwner EXCEPT ![d] = IF Leaves(c, cpc'[c]) THEN "dropped" ELSE @]
        /\ mapReaders' = IF Leaves(c, cpc'[c]) THEN mapReaders \ {c} ELSE mapReaders
        /\ UNCHANGED <<channels, entryLock, lockQ, rx, playerVars,
                       params, controller_state, frames, after>>

handle_controller(c, budget, devices, secrets) ==
    \/ controller_start(c, devices, secrets)
    \/ controller_lookup(c)
    \/ controller_lock_entry(c)
    \/ controller_take(c)
    \/ controller_recv(c, budget)
    \/ controller_send(c)

\* ---------------------------------------------------------- specification
\* One player connects; the controllers name its device, an unknown one or
\* none, deliver up to MaxFrames frames and carry the same secret or none.
Next ==
    \/ \E p \in Solo : handle_player(p)
    \/ \E c \in Controllers : handle_controller(c, MaxFrames, SoloParams, OneSecret)

Spec == Init /\ [][Next]_vars

\* Both players connect; the controllers name either device, an unknown one or
\* none, deliver up to MaxFramesTwo frames and carry any secret or none.
NextTwo ==
    \/ \E p \in Players : handle_player(p)
    \/ \E c \in Controllers : handle_controller(c, MaxFramesTwo, DeviceParams, SecretParams)

SpecTwo == Init /\ [][NextTwo]_vars

\* The runtime keeps polling every task that can make progress: the steps a
\* task takes on its own (lock acquisitions, sends, receives from the channel)
\* are weakly fair.  What the peers do on the sockets is not.
Fairness ==
    /\ \A p \in Players :
         /\ WF_vars(player_register(p))
         /\ WF_vars(player_handshake(p))
         /\ WF_vars(player_rx_recv(p))
         /\ WF_vars(player_unregister(p))
    /\ \A c \in Controllers :
         /\ WF_vars(controller_lookup(c))
         /\ WF_vars(controller_lock_entry(c))
         /\ WF_vars(controller_take(c))
         /\ WF_vars(controller_send(c))

LiveSpec == Spec /\ Fairness

LiveSpecTwo == SpecTwo /\ Fairness

TypeOK ==
    /\ channels \in [Devices -> {"absent", "some", "none"}]
    /\ entryLock \in [Devices -> Controllers \cup {NoOne}]
    /\ mapReaders \subseteq Controllers
    /\ rx \in [Devices -> {"unborn", "open", "closed"}]
    /\ \A d \in Devices : Len(queue[d]) <= ChanCap
    /\ FramesTaken <= MaxFrames
    /\ \A c \in Controllers : Len(csocket[c]) <= 1


\* ------------------------------------------------ vocabulary of the claims
\* The controller session c went past the claim of the producer handle.
Claimed(c) == cpc[c] \in {"loop", "send", "panicked"} \/ exitReason[c] \in LoopExits

\* The frames c ran through `match msg`: all it took, but for the one on
\* which it found the receiver closed.
Processed(c) ==
    IF exitReason[c] = "consumer_gone" THEN SubSeq(frames[c], 1, Len(frames[c]) - 1)
    ELSE frames[c]

IsCommandFrame(f) == f.type = "Text" /\ f.text.command \in Command

TextOf(fs) == [i \in 1..Len(fs) |-> fs[i].text]

\* The texts of the command frames among fs, in order.
CommandTexts(fs) == TextOf(SelectSeq(fs, IsCommandFrame))

Msgs(cs) == [i \in 1..Len(cs) |-> cs[i].msg]

IsOk(call) == call.result = "Ok"

\* The texts c's sends put into the buffer, in order.
Buffered(c) == Msgs(SelectSeq(calls[c], IsOk))

IsEventText(m) == m.command \in Command

\* The events the player session wrote to its socket after the handshake.
Written(p) == SelectSeq(psocket[p], IsEventText)

IsPrefix(s, t) == Len(s) <= Len(t) /\ SubSeq(t, 1, Len(s)) = s

\* The transition table of the pairing state machine, as the design states it.
TableAccepts ==
    {<<"Unpaired", "Pair">>, <<"Paired", "Play">>, <<"Stopped", "Play">>, <<"Played", "Stop">>,
     <<"Paired", "Unpair">>, <<"Played", "Unpair">>, <<"Stopped", "Unpair">>}

TableNext(s, command) ==
    CASE <<s, command>> = <<"Unpaired", "Pair">> -> "Paired"
      [] <<s, command>> \in {<<"Paired", "Play">>, <<"Stopped", "Play">>} -> "Played"
      [] <<s, command>> = <<"Played", "Stop">> -> "Stopped"
      [] OTHER -> "Unpaired"

\* The state the table leaves after the commands the texts spell, from s.
RECURSIVE TableRun(_, _)
TableRun(s, texts) ==
    IF texts = <<>> THEN s ELSE TableRun(TableNext(s, Head(texts).command), Tail(texts))

\* Whether the table accepts every one of them.
RECURSIVE TableAcceptsAll(_, _)
TableAcceptsAll(s, texts) ==
    \/ texts = <<>>
    \/ /\ <<s, Head(texts).command>> \in TableAccepts
       /\ TableAcceptsAll(TableNext(s, Head(texts).command), Tail(texts))

Front(s) == SubSeq(s, 1, Len(s) - 1)

Last(s) == s[Len(s)]

\* ----------------------------------------------------------------- claims

\* C1: over the lifetime of a registry entry at most one controller session
\* claims the device's producer handle; every other session that reaches the
\* slot finds it empty and returns before its read loop, having sent nothing.
C1_AtMostOneClaim ==
    /\ \A c1, c2 \in Controllers :
         (Claimed(c1) /\ Claimed(c2) /\ params[c1].device = params[c2].device) => c1 = c2
    /\ \A d \in Devices : senderOwner[d] \in Controllers =>
         /\ Claimed(senderOwner[d]) /\ params[senderOwner[d]].device = d
         /\ channels[d] = "none"
    /\ \A c \in Controllers : exitReason[c] = "already_claimed" =>
         /\ cpc[c] = "done" /\ ~Claimed(c)
         /\ frames[c] = <<>> /\ calls[c] = <<>> /\ pending[c] = <<>>
         /\ \E o \in Controllers \ {c} : Claimed(o) /\ params[o].device = params[c].device

C1_Witness ==
    \E c1, c2 \in Controllers :
        /\ c1 /= c2 /\ params[c1].device = params[c2].device
        /\ cpc[c1] = "loop" /\ exitReason[c2] = "already_claimed"

\* C2: the state a controller session holds after the commands it processed
\* is the one the transition table gives from Unpaired, and it was rejected
\* exactly when the table rejects its last command; Pair, Play, Stop, Play is
\* accepted four times and ends in Played.
C2_TransitionTable ==
    \A c \in Controllers :
        LET fs == Processed(c)
            texts == CommandTexts(fs)
        IN  (Claimed(c) /\ \A i \in 1..Len(fs) : fs[i].type /= "Close") =>
              /\ controller_state[c] = TableRun("Unpaired", texts)
              /\ texts /= <<>> =>
                   /\ TableAcceptsAll("Unpaired", Front(texts))
                   /\ (exitReason[c] = "rejected") <=>
                        (<<TableRun("Unpaired", Front(texts)), Last(texts).command>> \notin TableAccepts)
              /\ [i \in 1..Len(texts) |-> texts[i].command] = <<"Pair", "Play", "Stop", "Play">> =>
                   /\ controller_state[c] = "Played"
                   /\ exitReason[c] \in {"none", "panic", "stream_end", "consumer_gone"}

C2_Witness ==
    \E c \in Controllers :
        /\ [i \in 1..Len(frames[c]) |-> frames[c][i].text.command] = <<"Pair", "Play", "Stop", "Play">>
        /\ controller_state[c] = "Played"
        /\ Len(Buffered(c)) = 4


\* The session of c is over (returned or panicked).
Ended(c) == cpc[c] \in {"done", "panicked"}

\* c processed only text frames and other non-close frames.
NoCloseFrame(c) ==
    LET fs == Processed(c)
    IN  \A i \in 1..Len(fs) : fs[i].type /= "Close"

\* The last command c processed is one the table rejects.
LastRejected(c) ==
    LET texts == CommandTexts(Processed(c))
    IN  /\ texts /= <<>>
        /\ IsCommandFrame(Last(Processed(c)))
        /\ <<TableRun("Unpaired", Front(texts)), Last(texts).command>> \notin TableAccepts

\* C3: a session that ended on a rejected command made, for that frame, one
\* send and no more, of the forced Unpair (the earlier commands, all accepted,
\* account for one send each), and took no frame after it.
C3_RejectSendsOneForcedUnpair ==
    \A c \in Controllers :
        (Claimed(c) /\ NoCloseFrame(c) /\ LastRejected(c)) =>
            /\ cpc[c] \in {"send", "done", "panicked"}
            /\ frames[c] = Processed(c)
            /\ Ended(c) =>
                 Msgs(calls[c]) = Front(CommandTexts(Processed(c))) \o <<ForcedUnpair>>

\* C3, for the commands Pair, Play and Stop only.
C3_RejectedCommandSendsOneForcedUnpair ==
    \A c \in Controllers :
        (Claimed(c) /\ NoCloseFrame(c) /\ LastRejected(c)
           /\ Last(CommandTexts(Processed(c))).command /= "Unpair") =>
            /\ cpc[c] \in {"send", "done", "panicked"}
            /\ frames[c] = Processed(c)
            /\ Ended(c) =>
                 Msgs(calls[c]) = Front(CommandTexts(Processed(c))) \o <<ForcedUnpair>>

\* C4: while every command a session processed is accepted, its sends are
\* the inbound texts themselves, one send per command in order (the last one
\* outstanding while the session is suspended in it); and as long as the
\* player session forwards, what it wrote followed by what is still buffered
\* is what those sends put into the channel.
C4_VerbatimForwarding ==
    \A c \in Controllers :
        LET texts == CommandTexts(Processed(c))
            d == params[c].device
        IN  (Claimed(c) /\ NoCloseFrame(c) /\ TableAcceptsAll("Unpaired", texts)) =>
              /\ Msgs(calls[c]) = IF cpc[c] = "send" THEN Front(texts) ELSE texts
              /\ IsPrefix(Buffered(c), texts)
              /\ (\A i \in 1..Len(calls[c]) : calls[c][i].result = "Ok") =>
                    Buffered(c) = Msgs(calls[c])
              /\ ppc[d] = "loop" => Written(d) \o queue[d] = Buffered(c)
              /\ IsPrefix(Written(d), Buffered(c))

C4_Witness ==
    \E c \in Controllers :
        LET texts == CommandTexts(Processed(c))
        IN  /\ Claimed(c) /\ NoCloseFrame(c) /\ TableAcceptsAll("Unpaired", texts)
            /\ Len(texts) = 3
            /\ texts[1].raw = "spaced"
            /\ Written(params[c].device) = texts

\* C5: what the player session has written to its socket after the handshake
\* is a prefix of what the controller session has put into the channel.
C5_FifoPrefix ==
    \A c \in Controllers :
        Claimed(c) => IsPrefix(Written(params[c].device), Buffered(c))

C5_Unclaimed ==
    \A p \in Players :
        (\A c \in Controllers : ~(Claimed(c) /\ params[c].device = p)) => Written(p) = <<>>

C5_Witness ==
    \E c \in Controllers :
        /\ Claimed(c)
        /\ Len(Written(params[c].device)) = 2
        /\ Len(Buffered(c)) = 3
        /\ Buffered(c)[1] /= Buffered(c)[2]


\* C6: a player session that has ended has left no entry in the registry.
C6_EndedPlayerUnregistered ==
    \A p \in Players : ppc[p] = "done" => channels[p] = "absent"

\* C7: once a player session has found its socket disconnected (it has left
\* its loop through the socket arm and asked for the registry's write lock),
\* its device is eventually removed from the registry, whatever the
\* controllers do.
C7_DisconnectLeadsToRemoval ==
    \A p \in Players : (playerExit[p] = "socket") ~> (channels[p] = "absent")

\* C8: no controller session aborts on a send that reports Closed.
C8_ClosedSendHandled ==
    \A c \in Controllers : cpc[c] /= "panicked"

\* The state c was in when it processed its last frame.
StateBeforeLast(c) == TableRun("Unpaired", CommandTexts(Front(Processed(c))))

\* C9: a session that ended on a close frame is Unpaired, and if the close
\* frame came in state Paired, Played or Stopped its last send was an Unpair
\* event, made for that frame.
C9_CloseForwardsUnpair ==
    \A c \in Controllers :
        (Claimed(c) /\ Ended(c) /\ Processed(c) /= <<>> /\ Last(Processed(c)).type = "Close") =>
            /\ controller_state[c] = "Unpaired"
            /\ StateBeforeLast(c) \in {"Paired", "Played", "Stopped"} =>
                 /\ Len(calls[c]) = Len(CommandTexts(Processed(c))) + 1
                 /\ Last(calls[c]).msg.command = "Unpair"

\* C10: an Unpair command is the last frame its session takes; the session
\* goes on only to finish that frame's sends and end.  When the Unpair was
\* accepted the session's sends are the inbound texts, the Unpair text last and
\* once; when it was rejected they end with the forced Unpair and the text.
C10_UnpairEndsSession ==
    \A c \in Controllers :
        LET fs == Processed(c)
            texts == CommandTexts(fs)
        IN  Claimed(c) =>
              \A i \in 1..Len(fs) :
                (IsCommandFrame(fs[i]) /\ fs[i].text.command = "Unpair") =>
                  /\ i = Len(frames[c])
                  /\ cpc[c] \in {"send", "done", "panicked"}
                  /\ Ended(c) =>
                       IF StateBeforeLast(c) \in {"Paired", "Played", "Stopped"}
                       THEN /\ Msgs(calls[c]) = texts
                            /\ Last(calls[c]).msg = fs[i].text
                            /\ Last(calls[c]).result = "Ok" => Buffered(c) = texts
                       ELSE Msgs(calls[c]) = Front(texts) \o <<ForcedUnpair, fs[i].text>>

C10_Witness ==
    \E c \in Controllers :
        /\ cpc[c] = "done"
        /\ Len(frames[c]) = 3
        /\ IsCommandFrame(frames[c][3]) /\ frames[c][3].text.command = "Unpair"
        /\ frames[c][3].text.raw = "spaced"
        /\ StateBeforeLast(c) = "Played"
        /\ Buffered(c) = CommandTexts(frames[c])


\* The positions of a controller session before its read loop.
Prelude == {"start", "lookup", "entry", "take"}

\* C11: a session that left its read loop otherwise than on a close frame (a
\* rejected command, an Unpair, the receiver found closed, the stream ended)
\* has sent a close frame on the controller's socket by the time it ends.
C11_CloseFrameOnLoopExit ==
    \A c \in Controllers :
        (cpc[c] = "done"
           /\ exitReason[c] \in {"rejected", "unpair", "consumer_gone", "stream_end"}) =>
            /\ csocket[c] /= <<>>
            /\ Last(csocket[c]) = CloseMsg

\* C12: a step of a controller session that is before its read loop and does
\* not enter it (the device parameter is missing, the device is not in the
\* registry, the slot is empty, or the step is only on the way there) changes
\* neither the registry's entries and slots, nor any channel, nor what any
\* player was sent; a session that ends there took no frame and sent nothing.
C12_RefusedLeavesSharedStateAlone ==
    [][\A c \in Controllers :
          (cpc[c] \in Prelude /\ cpc'[c] /= cpc[c] /\ cpc'[c] /= "loop") =>
              /\ UNCHANGED <<channels, queue, rx, senderOwner, psocket>>
              /\ cpc'[c] = "done" =>
                   /\ exitReason'[c] \in EarlyReturns
                   /\ frames'[c] = <<>> /\ calls'[c] = <<>> /\ csocket'[c] = <<>>]_vars

C12_Witness ==
    \E c1, c2 \in Controllers :
        /\ exitReason[c1] = "already_claimed" /\ cpc[c1] = "done"
        /\ Claimed(c2) /\ params[c2].device = params[c1].device
        /\ channels[params[c1].device] = "none"
        /\ queue[params[c1].device] /= <<>>
        /\ ppc[params[c1].device] = "loop"


\* C13: the first message a player session writes is the registration naming
\* the key its channel was inserted under; while the session is in its loop
\* that id is a key of the registry; and the events a player session has
\* written are a prefix of what the controller session that claimed that id
\* has put into the channel, so a player whose id no session claimed has
\* written none.
C13_RoundTrip ==
    \A p \in Players :
        psocket[p] /= <<>> =>
            LET id == psocket[p][1].payload
            IN  /\ psocket[p][1].command = "registration"
                /\ id = p
                /\ ppc[p] = "loop" => get(channels, id)
                /\ Written(p) /= <<>> =>
                     \E c \in Controllers :
                         /\ Claimed(c) /\ params[c].device = id
                         /\ IsPrefix(Written(p), Buffered(c))

C13_Witness ==
    \E p, q \in Players, c \in Controllers :
        /\ p /= q /\ ppc[p] = "loop" /\ ppc[q] = "loop"
        /\ Claimed(c) /\ params[c].device = psocket[p][1].payload
        /\ Written(p) /= <<>> /\ Written(p) = Buffered(c)
        /\ channels[q] = "some" /\ Written(q) = <<>>


\* C14: the slot of a device whose producer handle a controller session
\* claimed is empty for as long as the entry is in the registry, whether that
\* session is still running, returned or panicked: the handle is never put
\* back, and a session that reaches the slot later finds None.
C14_SlotStaysEmpty ==
    /\ \A c \in Controllers :
         Claimed(c) => channels[params[c].device] \in {"none", "absent"}
    /\ \A c1, c2 \in Controllers :
         (Claimed(c1) /\ Ended(c1) /\ c2 /= c1 /\ params[c2].device = params[c1].device) =>
             ~Claimed(c2)

C14_Witness ==
    \E c1, c2 \in Controllers :
        /\ cpc[c1] = "done" /\ exitReason[c1] \in LoopExits
        /\ cpc[c2] = "take" /\ params[c2].device = params[c1].device
        /\ channels[params[c1].device] = "none"
        /\ senderOwner[params[c1].device] = "dropped"


\* A text frame whose text does not parse as an event.
IsMalformed(f) == f.type = "Text" /\ from_str(f.text) = ParseError

IsWellFormed(f) == ~IsMalformed(f)

\* What the loop does with the frames fs alone, from state s, when every send
\* completes: the state it ends in, the texts it sends, whether it goes on.
RECURSIVE Relay(_, _, _)
Relay(s, fs, sent) ==
    IF fs = <<>> THEN [state |-> s, sent |-> sent, next |-> "loop"]
    ELSE LET h == handle_frame(s, Head(fs))
             out == sent \o [i \in 1..Len(h.sends) |-> h.sends[i].msg]
         IN  IF h.next = "done" THEN [state |-> h.state, sent |-> out, next |-> "done"]
             ELSE Relay(h.state, Tail(fs), out)

\* C15: a text frame that does not parse changes nothing and ends nothing:
\* the state a session holds and the texts it has sent are those the loop
\* gives for the frames it processed with the unparseable ones left out, and
\* a session whose last frame did not parse is still in its loop, unless the
\* stream ended after it.
C15_MalformedFramesSkipped ==
    \A c \in Controllers :
        Claimed(c) =>
            LET alone == Relay("Unpaired", SelectSeq(Processed(c), IsWellFormed), <<>>)
            IN  /\ controller_state[c] = alone.state
                /\ IF cpc[c] = "send" THEN IsPrefix(Msgs(calls[c]), alone.sent)
                   ELSE Msgs(calls[c]) = alone.sent
                /\ (frames[c] /= <<>> /\ IsMalformed(Last(frames[c]))) =>
                     \/ cpc[c] = "loop"
                     \/ cpc[c] = "done" /\ exitReason[c] \in {"stream_end", "consumer_gone"}

C15_Witness ==
    \E c \in Controllers :
        /\ Len(frames[c]) = 4
        /\ IsMalformed(frames[c][1]) /\ IsMalformed(frames[c][3])
        /\ Buffered(c) = <<frames[c][2].text, frames[c][4].text>>
        /\ controller_state[c] = "Played"
        /\ cpc[c] = "loop"


\* C16: a session that found the receiver closed when it took a frame ended
\* there: its state and the sends it made are those of the frames before that
\* one, nothing is left to send, and nothing was written to its socket,
\* whether the frame was a text or a close frame.
C16_ConsumerGoneEndsSession ==
    \A c \in Controllers :
        exitReason[c] = "consumer_gone" =>
            LET before == Relay("Unpaired", Front(frames[c]), <<>>)
            IN  /\ cpc[c] = "done"
                /\ pending[c] = <<>>
                /\ before.next = "loop"
                /\ controller_state[c] = before.state
                /\ Msgs(calls[c]) = before.sent
                /\ csocket[c] = <<>>

C16_Witness ==
    \E c \in Controllers :
        /\ exitReason[c] = "consumer_gone"
        /\ Len(frames[c]) = 2
        /\ IsCommandFrame(Last(frames[c]))
        /\ handle_frame(controller_state[c], Last(frames[c])).state /= controller_state[c]
        /\ handle_frame(controller_state[c], Last(frames[c])).next = "loop"
        /\ Len(calls[c]) = 1


\* The number of events the player session p took from its receiver: those it
\* wrote, and the one it failed to write if that is how it left its loop.
Taken(p) == Len(Written(p)) + (IF playerExit[p] = "forward" THEN 1 ELSE 0)

\* C17: no channel holds more than ChanCap events; a session in a send on a
\* full, open channel cannot complete it, and can as soon as there is a free
\* slot or the receiver is closed; and as long as the receiver exists, the
\* events whose send returned Ok are, in send order, those the player session
\* took followed by those in the buffer.
C17_BoundedChannelBackpressure ==
    /\ \A d \in Devices : Len(queue[d]) <= ChanCap
    /\ \A c \in Controllers :
         cpc[c] = "send" =>
            (ENABLED controller_send(c)
               <=> (is_closed(params[c].device) \/ Len(queue[params[c].device]) < ChanCap))
    /\ \A c \in Controllers :
         LET d == params[c].device
             sent == Buffered(c)
             taken == Taken(d)
         IN  (Claimed(c) /\ ppc[d] \in {"handshake", "loop", "unregister"}) =>
                /\ taken <= Len(sent)
                /\ queue[d] = SubSeq(sent, taken + 1, Len(sent))
                /\ IsPrefix(Written(d), sent)

C17_Witness ==
    \E c \in Controllers :
        /\ cpc[c] = "send"
        /\ ~is_closed(params[c].device)
        /\ Len(queue[params[c].device]) = ChanCap
        /\ Written(params[c].device) /= <<>>
        /\ ~ENABLED controller_send(c)


\* C18: a player session writes nothing before its registration, the
\* registration is the first message it writes and the only registration, and
\* from the moment it is about to send it until it leaves its loop the device
\* it names is a key of the registry.
C18_HandshakeOnceAfterInsert ==
    \A p \in Players :
        /\ ppc[p] \in {"start", "register", "handshake"} => psocket[p] = <<>>
        /\ ppc[p] = "loop" => psocket[p] /= <<>>
        /\ psocket[p] /= <<>> =>
             /\ psocket[p][1] = Registration(p)
             /\ \A i \in 2..Len(psocket[p]) : IsEventText(psocket[p][i])
        /\ ppc[p] \in {"handshake", "loop"} => get(channels, p)

C18_Witness ==
    \E p \in Players, c \in Controllers :
        /\ ppc[p] = "loop"
        /\ Len(psocket[p]) = 3
        /\ cpc[c] = "loop" /\ params[c].device = psocket[p][1].payload


\* C19: the secret parameter plays no part in whether a session is admitted:
\* a session that returned before the lookup is one without a device
\* parameter.
C19_SecretPlaysNoRole ==
    \A c \in Controllers :
        (cpc[c] = "done" /\ exitReason[c] \in {"no_device", "no_secret"}) =>
            params[c].device = NoParam

\* C19, amended: a session returns before the lookup exactly when its device
\* parameter or its secret parameter is missing; the value of a secret that is
\* there is never looked at, and the state and the sends of an admitted
\* session are those the loop gives for its frames.
C19_SecretValueUnchecked ==
    \A c \in Controllers :
        cpc[c] /= "start" =>
            /\ exitReason[c] = "no_device" <=> params[c].device = NoParam
            /\ exitReason[c] = "no_secret" <=>
                 (params[c].device /= NoParam /\ params[c].secret = NoParam)
            /\ Claimed(c) =>
                 LET run == Relay("Unpaired", Processed(c), <<>>)
                 IN  /\ controller_state[c] = run.state
                     /\ IsPrefix(Msgs(calls[c]), run.sent)

C19_Witness ==
    \E c1, c2 \in Controllers :
        /\ params[c1].secret = "s1" /\ params[c2].secret = "s2"
        /\ Claimed(c1) /\ Claimed(c2)
        /\ Buffered(c2) /= <<>>


\* What was written to the controller's socket of c.
Replies(c) == {csocket[c][i] : i \in 1..Len(csocket[c])}

\* C20: a session that ended on a rejected command has written a forced
\* Unpair event to the controller's own socket.
C20_RejectedControllerGetsUnpair ==
    \A c \in Controllers :
        (Claimed(c) /\ NoCloseFrame(c) /\ LastRejected(c) /\ Ended(c)) =>
            ForcedUnpair \in Replies(c)

\* C20, amended: a session whose command is rejected sends the forced Unpair
\* into the relay channel, as the send it makes for that frame after one send
\* for each command before it; it takes no further frame and ends once its
\* sends are done; no event is ever written to the controller's own socket.
C20_RejectedPlayerGetsUnpair ==
    \A c \in Controllers :
        /\ \A m \in Replies(c) : ~IsEventText(m)
        /\ (Claimed(c) /\ LastRejected(c) /\ NoCloseFrame(c)) =>
             LET n == Len(CommandTexts(Processed(c)))
             IN  /\ frames[c] = Processed(c)
                 /\ cpc[c] = "send" \/ Ended(c)
                 /\ Ended(c) => Len(calls[c]) >= n /\ calls[c][n].msg = ForcedUnpair

C20_Witness ==
    \E c \in Controllers :
        /\ Claimed(c) /\ NoCloseFrame(c) /\ LastRejected(c)
        /\ cpc[c] = "done" /\ exitReason[c] = "rejected"
        /\ Len(frames[c]) = 2
        /\ csocket[c] = <<>>
        /\ Written(params[c].device) = <<frames[c][1].text, ForcedUnpair>>


\* C21: a controller session that is in its read loop, waiting for a frame or
\* in a send, holds neither the registry's lock nor an entry's lock, so that
\* no player's insert or remove, for this device or another, and no other
\* session's lookup has to wait for it.
C21_LoopHoldsNoRegistryLock ==
    \A c \in Controllers :
        cpc[c] \in {"loop", "send"} =>
            /\ c \notin mapReaders
            /\ \A d \in Devices : entryLock[d] /= c
            /\ \A p \in Players :
                 (ppc[p] \in {"register", "unregister"} /\ FirstInLine(p)) => CanWrite(p)


Sessions == Players \cup Controllers

\* t has asked for the registry's lock and has not been granted it.
Queued(t) == \E i \in 1..Len(lockQ) : lockQ[i] = t

\* <<t, u>>: t cannot get the lock it asked for before u lets go of one: u
\* asked for the registry's lock before t did, or t asks to write and u holds
\* a read guard, or t asks for the entry lock that u holds.
WaitsFor ==
    LET waiting == {c \in Controllers : cpc[c] = "entry" /\ entryLock[params[c].device] /= NoOne}
    IN  {<<lockQ[ij[1]], lockQ[ij[2]]>> :
             ij \in {x \in (1..Len(lockQ)) \X (1..Len(lockQ)) : x[2] < x[1]}}
          \cup {<<lockQ[i], u>> : i \in {k \in 1..Len(lockQ) : lockQ[k] \in Players}, u \in mapReaders}
          \cup {<<c, entryLock[params[c].device]>> : c \in waiting}

Compose(R, S) == {<<rs[1][1], rs[2][2]>> : rs \in {x \in R \X S : x[1][2] = x[2][1]}}

\* Paths of up to four steps, which is all there are among four sessions.
WaitsForPlus ==
    LET R == WaitsFor
        R2 == R \cup Compose(R, R)
    IN  IF R = {} THEN {} ELSE R2 \cup Compose(R2, R2)

\* C22: whoever holds an entry's lock took the registry's lock first, still
\* holds its read guard, is not asking for the registry's lock, and is at the
\* take, where it waits for nothing; no session that is asking for the
\* registry's lock holds an entry's lock; and no session waits, through any
\* chain of locks, for itself.
C22_LockOrder ==
    /\ \A d \in Devices :
         entryLock[d] /= NoOne =>
            /\ entryLock[d] \in mapReaders
            /\ ~Queued(entryLock[d])
            /\ cpc[entryLock[d]] = "take"
    /\ LET plus == WaitsForPlus
       IN  \A t \in Sessions : <<t, t>> \notin plus

C22_Witness ==
    \E p \in Players, c1, c2 \in Controllers :
        /\ <<p, c1>> \in WaitsFor /\ <<c2, p>> \in WaitsFor
        /\ <<c2, c1>> \in WaitsForPlus
        /\ cpc[c1] = "take"


\* C23: the events a player session has written are commands the transition
\* table accepts in that order from Unpaired, or such a sequence followed by
\* one Unpair; an Unpair is the last event written, and a session that wrote
\* one is no longer in its loop.
C23_PlayerSeesTableRuns ==
    \A p \in Players :
        LET w == Written(p)
        IN  /\ \/ TableAcceptsAll("Unpaired", w)
               \/ /\ w /= <<>> /\ Last(w).command = "Unpair"
                  /\ TableAcceptsAll("Unpaired", Front(w))
            /\ \A i \in 1..(Len(w) - 1) : w[i].command /= "Unpair"
            /\ (w /= <<>> /\ Last(w).command = "Unpair") => ppc[p] /= "loop"

C23_Witness ==
    \E p \in Players, c \in Controllers :
        /\ Claimed(c) /\ params[c].device = p
        /\ Len(Buffered(c)) = 2
        /\ Buffered(c)[1] = ForcedUnpair /\ Buffered(c)[2].command = "Unpair"
        /\ Written(p) = <<ForcedUnpair>>
        /\ ppc[p] = "done"


\* C24: once a controller session that claimed a device has ended while the
\* device's player session was in its loop, the device is eventually removed
\* from the registry.
C24_DeviceGoesWithItsController ==
    \A c \in Controllers, d \in Devices :
        (Claimed(c) /\ params[c].device = d /\ Ended(c) /\ ppc[d] = "loop")
            ~> (channels[d] = "absent")


\* The session of c left its loop and ran the final state check.
ReachedFinalCheck(c) == cpc[c] = "done" /\ exitReason[c] \in LoopExits

\* C25: at the final state check the state is Unpaired when the loop was left
\* on an Unpair, on a rejected command or on a close frame; when it is not
\* Unpaired, the loop was left because the stream ended or the receiver was
\* found closed, in the state the commands processed before had led to.
C25_FinalStateCheck ==
    \A c \in Controllers :
        ReachedFinalCheck(c) =>
            /\ exitReason[c] \in {"unpair", "rejected", "close"} => controller_state[c] = "Unpaired"
            /\ controller_state[c] /= "Unpaired" =>
                 /\ exitReason[c] \in {"stream_end", "consumer_gone"}
                 /\ controller_state[c] \in {"Paired", "Played", "Stopped"}
                 /\ controller_state[c] = TableRun("Unpaired", CommandTexts(Processed(c)))

C25_Witness ==
    \E c \in Controllers :
        /\ ReachedFinalCheck(c)
        /\ exitReason[c] = "consumer_gone"
        /\ controller_state[c] = "Stopped"
        /\ Len(frames[c]) = 4
====
